---------------------------- MODULE Spec2Model ----------------------------
(***************************************************************************)
(* Model of the scheduling and delivery control loop of                    *)
(* vix_monitor_service.py: the target-time calculator with its New York    *)
(* daylight-saving correction, the monitor loop, the send cycle, the       *)
(* /set-time handler and the self-ping loop.                               *)
(*                                                                         *)
(* Time is counted in whole seconds of KST wall clock (KST has no          *)
(* daylight saving, so wall-clock and absolute arithmetic agree), from     *)
(* 00:00:00 of day 0.  A date ("%Y-%m-%d") is the day number, a formatted  *)
(* timestamp ("%Y-%m-%d %H:%M:%S KST") is the tuple <<day, h, m, s>>.      *)
(***************************************************************************)
EXTENDS Integers, Sequences, FiniteSets, TLC

VARIABLES
    now,                     \* datetime.now(KST_TZ) at the last step
    weekday0,                \* weekday of day 0 (Monday = 0 ... Sunday = 6)
    ny_rule,                 \* which New York switch lies on the first Sunday
    credentials_ok,          \* token and chat id are not the placeholders
    TARGET_HOUR_KST,         \* environment variable read at line 294
    TARGET_MINUTE_KST,       \* environment variable read at line 295
    BASE_TARGET_HOUR_KST,    \* global, line 294
    BASE_TARGET_MINUTE_KST,  \* global, line 295
    status,                  \* global dict, lines 315-320
    pc,                      \* position of the main_monitor_loop task
    wake,                    \* instant at which the pending await of the task ends
    next_target_time_kst,    \* local of main_monitor_loop
    current_kst,             \* local of main_monitor_loop (read at tick start)
    target_date_kst,         \* local of main_monitor_loop (line 674)
    ping_wake,               \* instant at which self_ping_loop's sleep ends
    pings,                   \* iterations of self_ping_loop so far
    set_times,               \* accepted POST /set-time requests so far
    event,                   \* what the last step did
    raised,                  \* the last step ended in an exception
    cycles,                  \* day -> run_and_send_plot calls by ticks of that day
    delivered,               \* dates on which a delivery was reported successful
    arg1, arg2, res1, res2,  \* arguments and results of direct calculator calls
    plot_pc,                 \* position of a call of plot_vix_sp500
    attempt,                 \* loop variable of plot_vix_sp500
    plot_outcomes,           \* how each attempt of the call ended, in order
    plot_sleeps,             \* seconds slept after each attempt that was not the last
    plot_result,             \* what the call returned
    running,                 \* attempts whose _sync_fetch_and_plot_data thread runs
    send_pc,                 \* position of a call of send_photo_via_http
    send_attempt,            \* loop variable of send_photo_via_http
    send_outcomes,           \* how each send attempt of the call ended, in order
    send_sleeps,             \* seconds slept after each failed send attempt
    send_result,             \* what the call returned
    restarts,                \* restarts of the process so far
    sends                    \* day -> deliveries reported successful on that date

vars == <<now, weekday0, ny_rule, credentials_ok, BASE_TARGET_HOUR_KST,
          BASE_TARGET_MINUTE_KST, status, pc, wake, next_target_time_kst,
          current_kst, target_date_kst, ping_wake, pings, set_times, event,
          raised, cycles, delivered, arg1, arg2, res1, res2,
          plot_pc, attempt, plot_outcomes, plot_sleeps, plot_result, running,
          send_pc, send_attempt, send_outcomes, send_sleeps, send_result,
          TARGET_HOUR_KST, TARGET_MINUTE_KST, restarts, sends>>

---------------------------------------------------------------------------
(* Calendar arithmetic of datetime / timedelta.                            *)

SecondsPerMinute == 60
MinutesPerHour == 60
HoursPerDay == 24
SecondsPerHour == SecondsPerMinute * MinutesPerHour
SecondsPerDay == SecondsPerHour * HoursPerDay

DateOf(t) == t \div SecondsPerDay
HourOf(t) == (t % SecondsPerDay) \div SecondsPerHour
MinuteOf(t) == (t % SecondsPerHour) \div SecondsPerMinute
SecondOf(t) == t % SecondsPerMinute
At(day, h, m, s) == day * SecondsPerDay + h * SecondsPerHour + m * SecondsPerMinute + s

\* strftime("%Y-%m-%d")
StrftimeDate(t) == DateOf(t)
\* strftime("%Y-%m-%d %H:%M:%S KST")
StrftimeFull(t) == <<DateOf(t), HourOf(t), MinuteOf(t), SecondOf(t)>>
\* the string "N/A"
NA == <<>>
\* the string "1970-01-01": a date before every day of the run
SENTINEL_DATE == -1

\* datetime.weekday(): Monday = 0 ... Sunday = 6
MONDAY == 0
SUNDAY == 6
DaysPerWeek == 7
WeekdayOf(t) == (weekday0 + DateOf(t)) % DaysPerWeek
\* datetime.day: the run stays inside one month, so the day of the month
\* differs exactly when the date does
DayOfMonth(t) == DateOf(t) + 1

\* the raised ValueError of datetime.replace(hour=-1)
ValueError == -1

---------------------------------------------------------------------------
(* Bounds of the model.                                                    *)

HorizonHours == 42
MaxSetTime == 1
MaxPings == 1
Horizon == HorizonHours * SecondsPerHour

\* instants at which the process may start (on day 0)
StartInstants == {At(0, 15, 0, 30)}
\* what the environment fixes at start: <<weekday of day 0, New York switch of the
\* first Sunday, TARGET_HOUR_KST, TARGET_MINUTE_KST, credentials configured>>;
\* day 0 is a Saturday (5), the day before a switch, or a Tuesday (1)
StartScenarios ==
    {<<5, "spring", 16, 30, TRUE>>, <<5, "fall", 15, 30, TRUE>>,
     <<5, "spring", 0, 30, TRUE>>, <<5, "fall", 0, 30, TRUE>>,
     <<5, "spring", 23, 59, TRUE>>,
     <<1, "spring", 15, 30, TRUE>>, <<1, "spring", 15, 30, FALSE>>,
     <<1, "fall", 23, 59, TRUE>>}
\* how much later than asked a sleep of the monitor loop may return
LongPause == 2 * SecondsPerHour
Pauses == {0, LongPause}
\* instants at which a POST /set-time may arrive: one minute before the 15:30
\* window, and inside it (while a cycle started at 15:30:30 is suspended)
RequestInstants == {At(0, 15, 29, 30), At(0, 15, 30, 30)}
Days == 0..(HorizonHours \div HoursPerDay + 2)

---------------------------------------------------------------------------
(* Clock/Timezone resolver: America/New_York daylight saving seen from KST. *)

\* 02:00 EST of the switch Sunday is 16:00 KST; 02:00 EDT is 15:00 KST
SPRING_SWITCH_HOUR_KST == 16
FALL_SWITCH_HOUR_KST == 15
FirstSunday == (SUNDAY + DaysPerWeek - weekday0) % DaysPerWeek
NySwitch ==
    At(FirstSunday,
       IF ny_rule = "spring" THEN SPRING_SWITCH_HOUR_KST ELSE FALL_SWITCH_HOUR_KST,
       0, 0)

\* bool(kst_date.astimezone(NY_TZ).dst())
NyDst(t) == IF ny_rule = "spring" THEN t >= NySwitch ELSE t < NySwitch

get_target_hour_for_kst_date(kst_date) ==
    IF NyDst(kst_date) THEN BASE_TARGET_HOUR_KST - 1 ELSE BASE_TARGET_HOUR_KST

\* datetime.replace(hour=, minute=, second=0, microsecond=0)
Replace(t, hour, minute) ==
    IF hour \in 0..(HoursPerDay - 1) /\ minute \in 0..(MinutesPerHour - 1)
    THEN At(DateOf(t), hour, minute, 0)
    ELSE ValueError

---------------------------------------------------------------------------
(* Target-time calculator.                                                 *)

calculate_next_target_time(now_kst) ==
    LET today_target_hour == get_target_hour_for_kst_date(now_kst)
        target_time_today == Replace(now_kst, today_target_hour, BASE_TARGET_MINUTE_KST)
    IN  IF target_time_today = ValueError THEN ValueError
        ELSE IF now_kst >= target_time_today
        THEN LET tomorrow_kst == now_kst + SecondsPerDay
                 tomorrow_target_hour == get_target_hour_for_kst_date(tomorrow_kst)
             IN  Replace(tomorrow_kst, tomorrow_target_hour, BASE_TARGET_MINUTE_KST)
        ELSE target_time_today

---------------------------------------------------------------------------
(* Global state after import (lines 294-320) and process start.            *)

MONITOR_INTERVAL_SECONDS == 60
SELF_PING_INTERVAL_SECONDS == 5 * SecondsPerMinute

\* the producer's back-off waits 5 ** attempt after failed attempts 1, 2, 3
PRODUCER_BACKOFF_TOTAL == 5 + 25 + 125
\* the delivery's back-off waits 2 ** attempt after failed attempts 0, 1
DELIVERY_BACKOFF_TOTAL == 1 + 2
\* how long one run_and_send_plot may take: no time, or three intervals (the
\* back-off waits and the attempts between them)
CycleDurations == {0, 3 * MONITOR_INTERVAL_SECONDS}
\* the least time each outcome of run_and_send_plot takes
MinDuration(outcome) ==
    CASE outcome = "producer_failed" -> PRODUCER_BACKOFF_TOTAL
      [] outcome = "delivery_failed" -> DELIVERY_BACKOFF_TOTAL
      [] OTHER -> 0
CycleOutcomes == {"delivered", "producer_failed", "delivery_failed", "cycle_exception"}

\* no call of plot_vix_sp500 is in progress
PlotNotCalled ==
    /\ plot_pc = "idle"
    /\ attempt = 0
    /\ plot_outcomes = <<>>
    /\ plot_sleeps = <<>>
    /\ plot_result = "none_yet"
    /\ running = {}

\* no call of send_photo_via_http is in progress
SendNotCalled ==
    /\ send_pc = "idle"
    /\ send_attempt = 0
    /\ send_outcomes = <<>>
    /\ send_sleeps = <<>>
    /\ send_result = "none_yet"

\* a status dict that is not fresh: it holds day 0 as the last sent date
status_sent_day0 ==
    [last_sent_date_kst |-> 0,
     last_check_time_kst |-> NA,
     next_scheduled_time_kst |-> NA,
     last_self_ping_kst |-> NA]

status0 ==
    [last_sent_date_kst |-> SENTINEL_DATE,
     last_check_time_kst |-> NA,
     next_scheduled_time_kst |-> NA,
     last_self_ping_kst |-> NA]

InitProcess ==
    /\ now \in StartInstants
    /\ \E sc \in StartScenarios :
          /\ weekday0 = sc[1]
          /\ ny_rule = sc[2]
          /\ TARGET_HOUR_KST = sc[3]
          /\ TARGET_MINUTE_KST = sc[4]
          /\ credentials_ok = sc[5]
    /\ BASE_TARGET_HOUR_KST = TARGET_HOUR_KST
    /\ BASE_TARGET_MINUTE_KST = TARGET_MINUTE_KST
    /\ status = status0
    /\ pc = "start"
    /\ wake = now
    /\ next_target_time_kst = ValueError
    /\ current_kst = now
    /\ target_date_kst = SENTINEL_DATE
    /\ ping_wake = now + SELF_PING_INTERVAL_SECONDS
    /\ set_times = 0
    /\ event = "import"
    /\ raised = FALSE
    /\ cycles = [d \in Days |-> 0]
    /\ delivered = {}
    /\ sends = [d \in Days |-> 0]
    /\ arg1 = 0 /\ arg2 = 0 /\ res1 = ValueError /\ res2 = ValueError
    /\ PlotNotCalled
    /\ SendNotCalled

Init ==
    /\ InitProcess
    /\ pings = 0
    /\ restarts = 0

calcVars == <<arg1, arg2, res1, res2>>
plotVars == <<plot_pc, attempt, plot_outcomes, plot_sleeps, plot_result, running>>
sendVars == <<send_pc, send_attempt, send_outcomes, send_sleeps, send_result>>
envVars == <<weekday0, ny_rule, credentials_ok, TARGET_HOUR_KST, TARGET_MINUTE_KST>>
configVars == <<BASE_TARGET_HOUR_KST, BASE_TARGET_MINUTE_KST>>

---------------------------------------------------------------------------
(* main_monitor_loop, lines 648-707.                                       *)

\* lines 654-659: the first computation, outside the loop's try block
MonitorStart ==
    /\ pc = "start"
    /\ LET nt == calculate_next_target_time(now)
       IN  IF nt = ValueError
           THEN /\ pc' = "dead"
                /\ raised' = TRUE
                /\ UNCHANGED <<next_target_time_kst, status, wake>>
           ELSE /\ pc' = "sleep"
                /\ raised' = FALSE
                /\ next_target_time_kst' = nt
                /\ status' = [status EXCEPT !.next_scheduled_time_kst = StrftimeFull(nt)]
                /\ wake' = now + MONITOR_INTERVAL_SECONDS
    /\ event' = "start"
    /\ UNCHANGED <<now, current_kst, target_date_kst, ping_wake, pings, set_times,
                   cycles, delivered, sends, restarts>>
    /\ UNCHANGED <<sendVars, envVars, configVars, calcVars, plotVars>>

\* line 677
is_monday_or_sunday(t) == WeekdayOf(t) = MONDAY \/ WeekdayOf(t) = SUNDAY

\* the guard of line 681 left out
NotYetSentAlways(target_date, last_sent) == TRUE

\* line 681: the not-yet-sent guard
NotYetSent(target_date, last_sent) == target_date # last_sent

\* lines 679-681
TriggerCondition(cur, nxt, last_sent) ==
    /\ cur >= nxt
    /\ cur < nxt + SecondsPerMinute
    /\ NotYetSent(StrftimeDate(nxt), last_sent)

\* lines 698-699
CatchUpCondition(cur, nxt) ==
    /\ DayOfMonth(cur) # DayOfMonth(nxt)
    /\ HourOf(cur) > BASE_TARGET_HOUR_KST + 1

\* lines 694-695 and 702-703: store the next target, unless the calculator raised
\* (then the except clause of line 705 is reached with nothing stored)
Recompute(st) ==
    LET nt == calculate_next_target_time(current_kst')
    IN  IF nt = ValueError
        THEN /\ raised' = TRUE
             /\ next_target_time_kst' = next_target_time_kst
             /\ status' = st
        ELSE /\ raised' = FALSE
             /\ next_target_time_kst' = nt
             /\ status' = [st EXCEPT !.next_scheduled_time_kst = StrftimeFull(nt)]

\* lines 531-537: the credentials check of run_and_send_plot
ConfigurationFailure == ~credentials_ok

\* one iteration up to its first await inside run_and_send_plot, or to its end;
\* the sleep of line 663 returns pause seconds late, not after the horizon
TickUntil(pause, duration, horizon) ==
    /\ pc = "sleep"
    /\ pings < MaxPings => ping_wake > wake + pause
    /\ wake + pause <= horizon
    /\ now' = wake + pause
    /\ current_kst' = now'
    /\ target_date_kst' = StrftimeDate(next_target_time_kst)
    /\ LET checked == [status EXCEPT !.last_check_time_kst = StrftimeFull(now')]
       IN  IF TriggerCondition(now', next_target_time_kst, status.last_sent_date_kst)
           THEN IF is_monday_or_sunday(now')
                THEN /\ event' = "skip"
                     /\ Recompute(checked)
                     /\ pc' = "sleep"
                     /\ wake' = now' + MONITOR_INTERVAL_SECONDS
                     /\ cycles' = cycles
                ELSE /\ cycles' = [cycles EXCEPT ![DateOf(now')] = @ + 1]
                     /\ IF ConfigurationFailure
                        THEN /\ event' = "config_failure"
                             /\ Recompute(checked)
                             /\ pc' = "sleep"
                             /\ wake' = now' + MONITOR_INTERVAL_SECONDS
                        ELSE /\ event' = "invoke"
                             /\ raised' = FALSE
                             /\ status' = checked
                             /\ pc' = "cycle"
                             /\ wake' = now' + duration
                             /\ UNCHANGED next_target_time_kst
           ELSE /\ cycles' = cycles
                /\ pc' = "sleep"
                /\ wake' = now' + MONITOR_INTERVAL_SECONDS
                /\ IF CatchUpCondition(now', next_target_time_kst)
                   THEN /\ event' = "catch_up"
                        /\ Recompute(checked)
                   ELSE /\ event' = "idle"
                        /\ raised' = FALSE
                        /\ status' = checked
                        /\ UNCHANGED next_target_time_kst
    /\ UNCHANGED <<ping_wake, pings, set_times, delivered, sends, restarts>>
    /\ UNCHANGED <<sendVars, envVars, configVars, calcVars, plotVars>>

Tick(pause, duration) == TickUntil(pause, duration, Horizon)

\* the test of line 578 left out
DeliverySucceededAlways(outcome) == TRUE

\* line 578: if success
DeliverySucceeded(outcome) == outcome = "delivered"

\* lines 579-580: the state update of run_and_send_plot on success
MarkSent(st, t) == [st EXCEPT !.last_sent_date_kst = StrftimeDate(t)]

\* the rest of the iteration: run_and_send_plot returns (lines 540-583) or raises,
\* then lines 692-696
CycleEnd(outcome) ==
    /\ pc = "cycle"
    /\ wake - current_kst >= MinDuration(outcome)
    /\ now' = IF wake > now THEN wake ELSE now
    /\ event' = outcome
    /\ current_kst' = current_kst
    /\ IF outcome = "cycle_exception"
       THEN /\ raised' = TRUE
            /\ UNCHANGED <<status, next_target_time_kst>>
       ELSE IF DeliverySucceeded(outcome)
       THEN Recompute(MarkSent(status, now'))
       ELSE Recompute(status)
    /\ delivered' = IF outcome = "delivered"
                    THEN delivered \cup {StrftimeDate(now')} ELSE delivered
    /\ sends' = IF outcome = "delivered"
                THEN [sends EXCEPT ![StrftimeDate(now')] = @ + 1] ELSE sends
    /\ pc' = "sleep"
    /\ wake' = now' + MONITOR_INTERVAL_SECONDS
    /\ UNCHANGED <<target_date_kst, ping_wake, pings, set_times, cycles, restarts>>
    /\ UNCHANGED <<sendVars, envVars, configVars, calcVars, plotVars>>

---------------------------------------------------------------------------
(* self_ping_loop, lines 710-734.                                          *)

PingResponses == {"200", "non200", "exception"}

\* the test of line 727 left out
RecordSelfPingAlways(st, response, t) ==
    [st EXCEPT !.last_self_ping_kst = StrftimeFull(t)]

\* lines 727-728: the timestamp is written on status 200 only
RecordSelfPing(st, response, t) ==
    IF response = "200"
    THEN [st EXCEPT !.last_self_ping_kst = StrftimeFull(t)]
    ELSE st

SelfPing(response) ==
    /\ pc # "start"
    /\ pings < MaxPings
    /\ pc = "dead" \/ ping_wake <= wake
    /\ ping_wake <= Horizon
    /\ now' = IF ping_wake > now THEN ping_wake ELSE now
    /\ status' = RecordSelfPing(status, response, now')
    /\ event' = IF response = "200" THEN "self_ping_ok" ELSE "self_ping_failed"
    /\ raised' = (response = "exception")
    /\ ping_wake' = now' + SELF_PING_INTERVAL_SECONDS
    /\ pings' = pings + 1
    /\ UNCHANGED <<pc, wake, next_target_time_kst, current_kst, target_date_kst,
                   set_times, cycles, delivered, sends, restarts>>
    /\ UNCHANGED <<sendVars, envVars, configVars, calcVars, plotVars>>

---------------------------------------------------------------------------
(* POST /set-time, lines 760-793.                                          *)

\* a form field: the text of an integer, or some other text
Num(n) == [is_int |-> TRUE, val |-> n]
Txt == [is_int |-> FALSE, val |-> 0]
FormInputs ==
    {<<Num(16), Num(30)>>, <<Num(0), Num(30)>>, <<Num(17), Num(45)>>,
     <<Num(24), Num(30)>>, <<Num(16), Num(60)>>, <<Num(-1), Num(30)>>,
     <<Txt, Num(30)>>, <<Num(16), Txt>>}

\* the range check of lines 777-778 left out
ValidFormUnchecked(hour, minute) == hour.is_int /\ minute.is_int

\* lines 770-778: int() of both fields, then the range check
ValidForm(hour, minute) ==
    /\ hour.is_int /\ minute.is_int
    /\ 0 <= hour.val /\ hour.val <= 23
    /\ 0 <= minute.val /\ minute.val <= 59

\* a torn update: the hour is assigned and the calculator runs before the
\* minute is
set_schedule_time_torn(hour, minute) ==
    /\ pc # "start"
    /\ now \in RequestInstants
    /\ set_times < MaxSetTime
    /\ set_times' = IF ValidForm(hour, minute) THEN set_times + 1 ELSE set_times
    /\ UNCHANGED <<now, pc, wake, next_target_time_kst, current_kst, target_date_kst,
                   ping_wake, pings, cycles, delivered, sends, restarts>>
    /\ UNCHANGED <<sendVars, envVars, calcVars, plotVars>>
    /\ IF ~ValidForm(hour, minute)
       THEN /\ event' = "set_time_400"
            /\ raised' = TRUE
            /\ UNCHANGED <<configVars, status>>
       ELSE /\ BASE_TARGET_HOUR_KST' = hour.val
            /\ BASE_TARGET_MINUTE_KST' = BASE_TARGET_MINUTE_KST
            /\ LET nt == calculate_next_target_time(now)'
               IN  IF nt = ValueError
                   THEN /\ event' = "set_time_500"
                        /\ raised' = TRUE
                        /\ status' = status
                   ELSE /\ event' = "set_time_303"
                        /\ raised' = FALSE
                        /\ status' = [status EXCEPT
                                         !.next_scheduled_time_kst = StrftimeFull(nt)]

set_schedule_time(hour, minute) ==
    /\ pc # "start"
    /\ now \in RequestInstants
    /\ set_times < MaxSetTime
    /\ set_times' = IF ValidForm(hour, minute) THEN set_times + 1 ELSE set_times
    /\ UNCHANGED <<now, pc, wake, next_target_time_kst, current_kst, target_date_kst,
                   ping_wake, pings, cycles, delivered, sends, restarts>>
    /\ UNCHANGED <<sendVars, envVars, calcVars, plotVars>>
    /\ IF ~ValidForm(hour, minute)
       THEN /\ event' = "set_time_400"
            /\ raised' = TRUE
            /\ UNCHANGED <<configVars, status>>
       ELSE /\ BASE_TARGET_HOUR_KST' = hour.val
            /\ BASE_TARGET_MINUTE_KST' = minute.val
            /\ LET nt == calculate_next_target_time(now)'
               IN  IF nt = ValueError
                   THEN /\ event' = "set_time_500"
                        /\ raised' = TRUE
                        /\ status' = status
                   ELSE /\ event' = "set_time_303"
                        /\ raised' = FALSE
                        /\ status' = [status EXCEPT
                                         !.next_scheduled_time_kst = StrftimeFull(nt)]

---------------------------------------------------------------------------
(* The service: the two background tasks and the request handler.          *)

Next ==
    \/ MonitorStart
    \/ \E pause \in Pauses, duration \in CycleDurations : Tick(pause, duration)
    \/ \E outcome \in CycleOutcomes : CycleEnd(outcome)
    \/ \E response \in PingResponses : SelfPing(response)
    \/ \E form \in FormInputs : set_schedule_time(form[1], form[2])

Spec == Init /\ [][Next]_vars

---------------------------------------------------------------------------
(* The service with restarts of the process: the module is imported again   *)
(* (lines 294-320) and startup_event creates both tasks again (lines        *)
(* 748-755).  Nothing is kept on disk; what the previous instance had       *)
(* scheduled, a cycle in flight included, is gone.                          *)

MaxRestarts == 1
\* instants at which the process may be restarted: on day 0 ten seconds after
\* the 15:30 trigger instant, and in the morning of day 1
RestartInstants == {At(0, 15, 30, 10), At(1, 10, 0, 30)}

Restart(instant) ==
    /\ restarts < MaxRestarts
    /\ pc # "start"
    /\ instant >= now
    /\ pc = "dead" \/ instant <= wake
    /\ pings < MaxPings => ping_wake > instant
    /\ restarts' = restarts + 1
    /\ now' = instant
    /\ BASE_TARGET_HOUR_KST' = TARGET_HOUR_KST
    /\ BASE_TARGET_MINUTE_KST' = TARGET_MINUTE_KST
    /\ status' = status0
    /\ pc' = "start"
    /\ wake' = instant
    /\ next_target_time_kst' = ValueError
    /\ current_kst' = instant
    /\ target_date_kst' = SENTINEL_DATE
    /\ ping_wake' = instant + SELF_PING_INTERVAL_SECONDS
    /\ event' = "restart"
    /\ raised' = FALSE
    /\ UNCHANGED <<pings, set_times, cycles, delivered, sends>>
    /\ UNCHANGED <<sendVars, envVars, calcVars, plotVars>>

NextRestart ==
    \/ Next
    \/ \E instant \in RestartInstants : Restart(instant)

SpecRestart == Init /\ [][NextRestart]_vars

---------------------------------------------------------------------------
(* The service left alone: no request arrives, every sleep of the monitor  *)
(* loop returns on time and every cycle takes no time, so that ticks are   *)
(* exactly one interval apart.                                             *)

SteadyHorizonHours == 49
SteadyHorizon == SteadyHorizonHours * SecondsPerHour

SteadyTick == TickUntil(0, 0, SteadyHorizon)

NextSteady ==
    \/ MonitorStart
    \/ SteadyTick
    \/ \E outcome \in CycleOutcomes : CycleEnd(outcome)
    \/ \E response \in PingResponses : SelfPing(response)

SpecSteady == Init /\ [][NextSteady]_vars

---------------------------------------------------------------------------
(* Direct calls of the target-time calculator: two instants arg1 <= arg2   *)
(* under one configuration, around the Sunday of a New York switch.        *)

SampleHours == {0, 14, 15, 16, 23}
SampleMinutes == {0, 30, 45, 59}
SampleSeconds == {0, 30}
\* day 0 is the Saturday before the switch, day 1 the Sunday of the switch
SampleInstants ==
    {At(d, h, m, sec) : d \in {0, 1}, h \in SampleHours, m \in SampleMinutes,
                        sec \in SampleSeconds}
SampleDeltas == {0, 1, 20 * SecondsPerMinute, SecondsPerHour, SecondsPerDay}
ConfigMinutes == {0, 30, 59}

InitCalc ==
    /\ now = 0
    /\ weekday0 = 5
    /\ ny_rule \in {"spring", "fall"}
    /\ credentials_ok = TRUE
    /\ BASE_TARGET_HOUR_KST \in 0..(HoursPerDay - 1)
    /\ BASE_TARGET_MINUTE_KST \in ConfigMinutes
    /\ TARGET_HOUR_KST = BASE_TARGET_HOUR_KST
    /\ TARGET_MINUTE_KST = BASE_TARGET_MINUTE_KST
    /\ restarts = 0
    /\ status = status0
    /\ pc = "calc"
    /\ wake = 0
    /\ next_target_time_kst = ValueError
    /\ current_kst = 0
    /\ target_date_kst = SENTINEL_DATE
    /\ ping_wake = 0
    /\ pings = 0
    /\ set_times = 0
    /\ event = "import"
    /\ raised = FALSE
    /\ cycles = [d \in Days |-> 0]
    /\ delivered = {}
    /\ sends = [d \in Days |-> 0]
    /\ arg1 \in SampleInstants
    /\ \E delta \in SampleDeltas : arg2 = arg1 + delta
    /\ res1 = ValueError /\ res2 = ValueError
    /\ PlotNotCalled
    /\ SendNotCalled

CalcCall ==
    /\ pc = "calc"
    /\ pc' = "called"
    /\ res1' = calculate_next_target_time(arg1)
    /\ res2' = calculate_next_target_time(arg2)
    /\ raised' = (res1' = ValueError \/ res2' = ValueError)
    /\ UNCHANGED <<now, status, wake, next_target_time_kst, current_kst,
                   target_date_kst, ping_wake, pings, set_times, event, cycles,
                   delivered, sends, restarts, arg1, arg2>>
    /\ UNCHANGED <<sendVars, envVars, configVars, plotVars>>

NextCalc == CalcCall

SpecCalc == InitCalc /\ [][NextCalc]_vars

---------------------------------------------------------------------------
(* plot_vix_sp500, lines 439-489: the retry loop around the chart producer. *)

\* line 449
max_retry == 4

RECURSIVE Power(_, _)
Power(base, exponent) == IF exponent = 0 THEN 1 ELSE base * Power(base, exponent - 1)

\* how one attempt (lines 458-467) may end: a chart, None from the producer
\* (raised as an Exception at line 467), an exception out of the thread, or the
\* 50 s timeout of wait_for
AttemptOutcomes == {"result", "empty", "exception", "timeout"}

\* the for statement of line 453 takes the next value of attempt, or is exhausted
\* and line 489 returns None
PlotNextIteration ==
    IF attempt + 1 <= max_retry
    THEN /\ attempt' = attempt + 1
         /\ plot_pc' = "attempt"
         /\ plot_result' = plot_result
    ELSE /\ attempt' = attempt
         /\ plot_pc' = "returned"
         /\ plot_result' = "None"

\* the state of the service outside the call does not matter to it
InitPlot ==
    /\ now = 0
    /\ weekday0 = 1
    /\ ny_rule = "spring"
    /\ credentials_ok = TRUE
    /\ BASE_TARGET_HOUR_KST = 15
    /\ BASE_TARGET_MINUTE_KST = 30
    /\ TARGET_HOUR_KST = BASE_TARGET_HOUR_KST
    /\ TARGET_MINUTE_KST = BASE_TARGET_MINUTE_KST
    /\ restarts = 0
    /\ status = status0
    /\ pc = "cycle"
    /\ wake = 0
    /\ next_target_time_kst = ValueError
    /\ current_kst = 0
    /\ target_date_kst = SENTINEL_DATE
    /\ ping_wake = 0
    /\ pings = 0
    /\ set_times = 0
    /\ event = "invoke"
    /\ raised = FALSE
    /\ cycles = [d \in Days |-> 0]
    /\ delivered = {}
    /\ sends = [d \in Days |-> 0]
    /\ arg1 = 0 /\ arg2 = 0 /\ res1 = ValueError /\ res2 = ValueError
    /\ PlotNotCalled
    /\ SendNotCalled

serviceVars ==
    <<now, status, pc, wake, next_target_time_kst, current_kst, target_date_kst,
      ping_wake, pings, set_times, event, raised, cycles, delivered, sends,
      restarts>>

\* lines 447-453: the call, up to the first attempt
PlotCall ==
    /\ plot_pc = "idle"
    /\ plot_pc' = "attempt"
    /\ attempt' = 1
    /\ UNCHANGED <<plot_outcomes, plot_sleeps, plot_result, running>>
    /\ UNCHANGED <<serviceVars, sendVars, envVars, configVars, calcVars>>

\* lines 454-461: asyncio.to_thread starts _sync_fetch_and_plot_data in a thread
\* of the default executor and the coroutine awaits it under wait_for
PlotStartThread ==
    /\ plot_pc = "attempt"
    /\ plot_pc' = "waiting"
    /\ running' = running \cup {attempt}
    /\ UNCHANGED <<attempt, plot_outcomes, plot_sleeps, plot_result>>
    /\ UNCHANGED <<serviceVars, sendVars, envVars, configVars, calcVars>>

\* lines 458-487: the await of line 458 ends and the attempt runs to the except
\* clause it ends in, up to the next await.  A result, None or an exception
\* comes from the thread, which has ended; on a timeout wait_for cancels the
\* awaited future only, and the thread runs on
PlotAttempt(outcome) ==
    /\ plot_pc = "waiting"
    /\ plot_outcomes' = Append(plot_outcomes, outcome)
    /\ running' = IF outcome = "timeout" THEN running ELSE running \ {attempt}
    /\ CASE outcome = "result" ->
              /\ plot_pc' = "returned"
              /\ plot_result' = "result"
              /\ UNCHANGED <<attempt, plot_sleeps>>
         [] outcome = "timeout" ->
              IF attempt = max_retry
              THEN /\ plot_pc' = "returned"
                   /\ plot_result' = "None"
                   /\ UNCHANGED <<attempt, plot_sleeps>>
              ELSE /\ plot_sleeps' = Append(plot_sleeps, 0)
                   /\ PlotNextIteration
         [] OTHER ->
              IF attempt < max_retry
              THEN /\ plot_pc' = "backoff"
                   /\ UNCHANGED <<attempt, plot_sleeps, plot_result>>
              ELSE /\ plot_pc' = "returned"
                   /\ plot_result' = "None"
                   /\ UNCHANGED <<attempt, plot_sleeps>>
    /\ UNCHANGED <<serviceVars, sendVars, envVars, configVars, calcVars>>

\* lines 482-484: the sleep of 5 ** attempt seconds returns
PlotBackoff ==
    /\ plot_pc = "backoff"
    /\ plot_sleeps' = Append(plot_sleeps, Power(5, attempt))
    /\ PlotNextIteration
    /\ UNCHANGED <<plot_outcomes, running>>
    /\ UNCHANGED <<serviceVars, sendVars, envVars, configVars, calcVars>>

\* lines 325-436: _sync_fetch_and_plot_data returns in a thread that nobody
\* awaits any more
AbandonedThreadReturns(worker) ==
    /\ worker \in running
    /\ ~(plot_pc = "waiting" /\ worker = attempt)
    /\ running' = running \ {worker}
    /\ UNCHANGED <<plot_pc, attempt, plot_outcomes, plot_sleeps, plot_result>>
    /\ UNCHANGED <<serviceVars, sendVars, envVars, configVars, calcVars>>

NextPlot ==
    \/ PlotCall
    \/ PlotStartThread
    \/ \E outcome \in AttemptOutcomes : PlotAttempt(outcome)
    \/ PlotBackoff
    \/ \E worker \in 1..max_retry : AbandonedThreadReturns(worker)

SpecPlot == InitPlot /\ [][NextPlot]_vars

---------------------------------------------------------------------------
(* send_photo_via_http, lines 494-529: the retry loop around sendPhoto.     *)

\* range(3), line 509
SEND_ATTEMPTS == 3

\* how one attempt (lines 511-521) may end: 'ok' true in the answer; 'ok' false
\* (raised as an Exception at line 521); a 4xx or a 5xx status (raised by
\* raise_for_status, line 514); no answer (connection error or the 60 s timeout)
SendOutcomes == {"ok", "not_ok", "client_error", "server_error", "network_error"}

\* the transport answered and turned the request down
ApplicationRejection == {"not_ok", "client_error"}

InitSend == InitPlot

\* lines 496-509: the form is built and the loop entered
SendCall ==
    /\ send_pc = "idle"
    /\ send_pc' = "attempt"
    /\ send_attempt' = 0
    /\ UNCHANGED <<send_outcomes, send_sleeps, send_result>>
    /\ UNCHANGED <<serviceVars, envVars, configVars, calcVars, plotVars>>

\* the for statement of line 509 takes the next value of attempt, or is exhausted
\* and lines 528-529 return False
SendNextIteration ==
    IF send_attempt + 1 < SEND_ATTEMPTS
    THEN /\ send_attempt' = send_attempt + 1
         /\ send_pc' = "attempt"
         /\ send_result' = send_result
    ELSE /\ send_attempt' = send_attempt
         /\ send_pc' = "returned"
         /\ send_result' = "False"

\* lines 510-526: one attempt; every failure is an exception caught at line 523
SendAttempt(outcome) ==
    /\ send_pc = "attempt"
    /\ send_outcomes' = Append(send_outcomes, outcome)
    /\ IF outcome = "ok"
       THEN /\ send_pc' = "returned"
            /\ send_result' = "True"
            /\ UNCHANGED <<send_attempt, send_sleeps>>
       ELSE IF send_attempt < 2
       THEN /\ send_pc' = "backoff"
            /\ UNCHANGED <<send_attempt, send_sleeps, send_result>>
       ELSE /\ send_sleeps' = send_sleeps
            /\ SendNextIteration
    /\ UNCHANGED <<serviceVars, envVars, configVars, calcVars, plotVars>>

\* a backoff that does not grow: one second after every failed attempt
SendBackoffFlat ==
    /\ send_pc = "backoff"
    /\ send_sleeps' = Append(send_sleeps, 1)
    /\ SendNextIteration
    /\ UNCHANGED send_outcomes
    /\ UNCHANGED <<serviceVars, envVars, configVars, calcVars, plotVars>>

\* line 526: the sleep of 2 ** attempt seconds returns
SendBackoff ==
    /\ send_pc = "backoff"
    /\ send_sleeps' = Append(send_sleeps, Power(2, send_attempt))
    /\ SendNextIteration
    /\ UNCHANGED send_outcomes
    /\ UNCHANGED <<serviceVars, envVars, configVars, calcVars, plotVars>>

NextSend ==
    \/ SendCall
    \/ \E outcome \in SendOutcomes : SendAttempt(outcome)
    \/ SendBackoff

SpecSend == InitSend /\ [][NextSend]_vars

\* the coroutine is always resumed: a request ends within its 60 s total
\* timeout (line 511) and a sleep of line 526 ends
SpecSendLive == SpecSend /\ WF_vars(NextSend)

\* no attempt of the call produced a chart
EveryAttemptFailed ==
    \A i \in 1..Len(plot_outcomes) : plot_outcomes[i] # "result"

(* C12: when every attempt of the producer fails, plot_vix_sp500 makes      *)
(* exactly 4 attempts, waits 5, 25 and 125 seconds after attempts 1, 2 and  *)
(* 3 and not after attempt 4, and returns None without raising; it never    *)
(* makes a fifth attempt.                                                   *)
C12_BoundedProducerRetries ==
    /\ Len(plot_outcomes) <= max_retry
    /\ plot_pc # "raised"
    /\ (plot_pc = "returned" /\ EveryAttemptFailed) =>
          /\ Len(plot_outcomes) = max_retry
          /\ plot_sleeps = <<5, 25, 125>>
          /\ plot_result = "None"

---------------------------------------------------------------------------
(* Properties of the target-time calculator.                               *)

(* C6: for every valid configuration and either daylight-saving regime the *)
(* calculator returns an instant strictly greater than now.                *)
C6_StrictlyFuture ==
    pc = "called" => res1 # ValueError /\ res1 > arg1

(* C7: under a fixed configuration the calculator is monotonic: for        *)
(* now1 <= now2 its result for now1 is at most its result for now2.        *)
C7_Monotonic ==
    (pc = "called" /\ res1 # ValueError /\ res2 # ValueError) => res1 <= res2

\* today at effective_hour:minute:00, the effective hour being that of the instant
Candidate(t) == At(DateOf(t), get_target_hour_for_kst_date(t), BASE_TARGET_MINUTE_KST, 0)

(* C8: the calculator returns today's candidate when now < candidate and   *)
(* the next day's candidate when now >= candidate; the result has second 0 *)
(* and its date is now's date or the following one.                        *)
C8_TodayOrTomorrow ==
    pc = "called" =>
        /\ res1 # ValueError
        /\ arg1 < Candidate(arg1) => res1 = Candidate(arg1)
        /\ arg1 >= Candidate(arg1) => res1 = Candidate(arg1 + SecondsPerDay)
        /\ SecondOf(res1) = 0
        /\ DateOf(res1) \in {DateOf(arg1), DateOf(arg1) + 1}

\* the base hour, less one while New York daylight saving is active at t
EffectiveHour(t) == BASE_TARGET_HOUR_KST - (IF NyDst(t) THEN 1 ELSE 0)

(* C9: the effective hour is H without and H-1 with daylight saving, and a *)
(* result rolled to tomorrow carries the hour of the regime that applies   *)
(* to that trigger.                                                        *)
C9_DstBoundary ==
    (pc = "called" /\ res1 # ValueError) =>
        /\ get_target_hour_for_kst_date(arg1) = EffectiveHour(arg1)
        /\ DateOf(res1) = DateOf(arg1) + 1 => HourOf(res1) = EffectiveHour(res1)

---------------------------------------------------------------------------
(* Properties of the monitor loop.                                         *)

\* the instant lies in the one-minute window of the pending trigger
InWindow(cur, nxt) == cur >= nxt /\ cur < nxt + SecondsPerMinute

\* the step is a tick that called run_and_send_plot
InvokesCycle == cycles' # cycles

(* C1: once a delivery was reported successful on date D, no later tick whose *)
(* current date is D calls run_and_send_plot again.                          *)
C1_IdempotentDayGuard ==
    [][InvokesCycle => StrftimeDate(now') \notin delivered]_vars

\* a tick inside the window of a pending trigger, on a date already delivered,
\* that the guard kept from sending
C1_Witness ==
    /\ event = "idle"
    /\ pc = "sleep"
    /\ StrftimeDate(now) \in delivered
    /\ InWindow(current_kst, next_target_time_kst)
    /\ current_kst = now

(* C2: for any interleaving of ticks, cycle outcomes and valid POST        *)
(* /set-time requests, run_and_send_plot is called at most once per        *)
(* calendar date; a failed cycle is never retried on the same day.         *)
C2_AtMostOneCyclePerDay ==
    \A d \in Days : cycles[d] <= 1

\* the weekday of day d is not excluded
EligibleDay(d) ==
    /\ (weekday0 + d) % DaysPerWeek # MONDAY
    /\ (weekday0 + d) % DaysPerWeek # SUNDAY

(* C3: with the configuration unchanged and ticks exactly 60 s apart, on   *)
(* every non-excluded day that passes while the process runs (it starts on *)
(* day 0) one tick falls inside the trigger window with the guard open,    *)
(* so the cycle is invoked on that day.                                    *)
C3_EveryEligibleDayServed ==
    \A d \in Days :
        (/\ d >= 1
         /\ EligibleDay(d)
         /\ pc # "dead"
         /\ now >= At(d + 1, 0, 0, 0)) => cycles[d] = 1

(* C4: last_sent_date never moves to an earlier date and changes only in a *)
(* step in which the delivery reported success; every other step leaves it *)
(* unchanged.                                                              *)
C4_LastSentMonotonicSuccessGated ==
    /\ status.last_sent_date_kst = SENTINEL_DATE
    /\ [][status'.last_sent_date_kst # status.last_sent_date_kst =>
             /\ event' = "delivered"
             /\ status'.last_sent_date_kst > status.last_sent_date_kst]_vars

\* a second successful delivery has moved last_sent_date on from an earlier
\* delivery date
C4_Witness ==
    /\ event = "delivered"
    /\ Cardinality(delivered) = 2
    /\ status.last_sent_date_kst = StrftimeDate(now)

(* C5: on delivery success last_sent_date is set to current_date_key, the  *)
(* date of the pending trigger the tick was handling, for every cycle      *)
(* duration, also when the cycle ends after midnight.                      *)
C5_LastSentIsTriggerDate ==
    event = "delivered" => status.last_sent_date_kst = target_date_kst

(* C10: a tick inside the trigger window with the guard open on an         *)
(* excluded weekday calls neither producer nor delivery, leaves            *)
(* last_sent_date unchanged, and recomputes next_trigger_instant to a      *)
(* strictly later instant on a later date.                                 *)
C10_WeekdayExclusion ==
    [][event' = "skip" =>
          /\ cycles' = cycles
          /\ status'.last_sent_date_kst = status.last_sent_date_kst
          /\ next_target_time_kst' > next_target_time_kst
          /\ DateOf(next_target_time_kst') > DateOf(next_target_time_kst)]_vars

\* the step ends a tick in which the trigger condition held and the cycle
\* reported success or failure, or was skipped for the weekday
EndsTriggeredTick ==
    event' \in {"delivered", "producer_failed", "delivery_failed",
                "config_failure", "skip"}

(* C11: after every tick in which the trigger condition held, whatever the *)
(* cycle reported (success, producer or delivery failure, configuration    *)
(* failure) and also after a weekday skip, the stored next_trigger_instant *)
(* is the calculator's result for that tick's now and lies on the next day. *)
C11_ScheduleAdvances ==
    [][EndsTriggeredTick =>
          /\ next_target_time_kst' = calculate_next_target_time(current_kst)'
          /\ DateOf(next_target_time_kst') = DateOf(current_kst') + 1]_vars

(* C13: the monitor loop never terminates on a failure: after any exception *)
(* of its own processing (the computation at loop start or in a tick, the   *)
(* trigger check, the cycle) it sleeps and ticks again; no reachable state  *)
(* has the monitor task stopped while the process runs.                     *)
C13_LoopNeverStops ==
    pc # "dead"

(* C14: after a valid POST /set-time handled at instant t, the             *)
(* next_trigger_instant that the monitor loop compares against on its       *)
(* following ticks is the calculator's result for t under the new           *)
(* configuration.                                                           *)
C14_ReconfigurationImmediate ==
    [][event' = "set_time_303" =>
          next_target_time_kst' = calculate_next_target_time(now)']_vars

\* the form does not carry an integer hour in 0-23 and an integer minute in 0-59
RejectedInput(hour, minute) ==
    ~(/\ hour.is_int /\ hour.val \in 0..(HoursPerDay - 1)
      /\ minute.is_int /\ minute.val \in 0..(MinutesPerHour - 1))

(* C15: a POST /set-time whose hour or minute is not an integer, or whose   *)
(* hour is outside 0-23 or minute outside 0-59, yields a 400 error and      *)
(* leaves the base hour, the base minute and every field of the schedule    *)
(* state unchanged.                                                         *)
C15_InvalidReconfigurationRejected ==
    [][\A form \in FormInputs :
          (RejectedInput(form[1], form[2]) /\ set_schedule_time(form[1], form[2])) =>
              /\ event' = "set_time_400"
              /\ UNCHANGED <<configVars, status, next_target_time_kst>>]_vars

\* an invalid request was answered 400 after the schedule state was filled in
C15_Witness ==
    /\ event = "set_time_400"
    /\ now \in RequestInstants
    /\ status.next_scheduled_time_kst # NA
    /\ set_times = 0

(* C16: when the bot token or chat id is a placeholder, every triggered    *)
(* cycle returns failure before the producer or the delivery is invoked,    *)
(* last_sent_date is unchanged, and the tick still recomputes               *)
(* next_trigger_instant to the next day.                                    *)
C16_ConfigurationFailureShortCircuits ==
    [][(~credentials_ok /\ InvokesCycle) =>
          /\ event' = "config_failure"
          /\ pc' = "sleep"
          /\ delivered' = delivered
          /\ status'.last_sent_date_kst = status.last_sent_date_kst
          /\ next_target_time_kst' # next_target_time_kst
          /\ DateOf(next_target_time_kst') = DateOf(current_kst') + 1]_vars

\* the step is an iteration of self_ping_loop
PingStep == pings' # pings

(* C17: every step of self_ping_loop, whether the probe succeeds, returns  *)
(* a non-200 status or raises, leaves last_sent_date, next_trigger_instant, *)
(* last_check_instant and the schedule configuration unchanged; it writes   *)
(* only last_self_ping, and only on a 200 response, and leaves every        *)
(* variable the monitor loop's trigger decision reads as it was.            *)
C17_ProberIsolation ==
    [][PingStep =>
          /\ status'.last_sent_date_kst = status.last_sent_date_kst
          /\ status'.next_scheduled_time_kst = status.next_scheduled_time_kst
          /\ status'.last_check_time_kst = status.last_check_time_kst
          /\ UNCHANGED <<configVars, next_target_time_kst, current_kst,
                         target_date_kst, pc, wake, cycles, delivered>>
          /\ event' # "self_ping_ok" => status' = status]_vars

\* a probe failed (non-200 status or exception) after the loop had ticked
C17_Witness ==
    /\ event = "self_ping_failed"
    /\ pings = 1
    /\ status.last_check_time_kst # NA
    /\ pc = "sleep"

\* the step is a restart of the process
RestartStep == restarts' # restarts

\* the step is the first computation of a restarted instance, and it returned
FreshStart == restarts >= 1 /\ event' = "start" /\ pc' = "sleep"

\* dates on which more than one delivery was reported successful
DuplicatedDates == {d \in Days : sends[d] > 1}

StaleTrigger ==
    /\ pc = "sleep"
    /\ next_target_time_kst # ValueError
    /\ now >= next_target_time_kst + SecondsPerMinute

\* some tick of the coming two days, whatever its hour, takes the catch-up branch
CatchUpAhead ==
    \E k \in 0..(2 * HoursPerDay) :
        CatchUpCondition(now + k * SecondsPerHour, next_target_time_kst)

(* C19: for every valid base hour, whenever the stored next_trigger_instant *)
(* has elapsed without its window being handled, the loop eventually        *)
(* recomputes it to a future instant: a tick that does so lies ahead (the   *)
(* trigger branch is closed for good once the window has elapsed, so only   *)
(* the catch-up branch can).                                                *)
C19_NoPermanentStaleness ==
    StaleTrigger => CatchUpAhead

\* the step is a tick of the monitor loop
TickStep == pc = "sleep" /\ status'.last_check_time_kst # status.last_check_time_kst

\* no tick fell inside the window of the stored trigger, which was on the day
\* before the tick's day: that day is not excluded, its guard was open, and no
\* cycle was invoked on it
MissedYesterday ==
    /\ next_target_time_kst # ValueError
    /\ DateOf(next_target_time_kst) = DateOf(now') - 1
    /\ EligibleDay(DateOf(next_target_time_kst))
    /\ status.last_sent_date_kst # StrftimeDate(next_target_time_kst)
    /\ cycles[DateOf(next_target_time_kst)] = 0

(* C20: if no tick falls inside day D's trigger window, the stored          *)
(* next_trigger_instant is recomputed before day D+1's trigger instant, so  *)
(* that the tick inside day D+1's window, when D+1 is not excluded, invokes *)
(* the cycle.                                                               *)
C20_MissedWindowCostsOneDay ==
    [][(/\ TickStep
        /\ MissedYesterday
        /\ InWindow(now', Candidate(now'))
        /\ ~is_monday_or_sunday(now')) => InvokesCycle]_vars

(* C21: a producer attempt that exceeds its 50-second timeout is treated    *)
(* like an attempt that failed with an error: it consumes one of the 4      *)
(* attempts and, when it is not the last attempt, is followed by the same   *)
(* backoff delay of 5 ** attempt seconds before the next attempt starts.    *)
C21_TimeoutBacksOff ==
    /\ Len(plot_outcomes) <= max_retry
    /\ \A i \in 1..Len(plot_sleeps) :
          plot_outcomes[i] = "timeout" => plot_sleeps[i] = Power(5, i)

(* C22: the delivery does not retry a definitive application-level         *)
(* rejection: when an attempt is answered with 'ok' false or with a         *)
(* client-error status, send_photo_via_http reports failure at once, with   *)
(* no further attempt and no backoff wait.                                  *)
C22_NoRetryOnRejection ==
    \A i \in 1..Len(send_outcomes) :
        send_outcomes[i] \in ApplicationRejection =>
            /\ Len(send_outcomes) = i
            /\ send_pc = "returned"
            /\ send_result = "False"
            /\ Len(send_sleeps) < i

\* the attempts made so far that did not succeed
FailedAttempts == {i \in 1..Len(send_outcomes) : send_outcomes[i] # "ok"}

\* what one call of send_photo_via_http has done so far is within the retry
\* policy
WithinDeliveryPolicy ==
    /\ Len(send_outcomes) <= 3
    /\ \A i \in 1..Len(send_outcomes) :
          send_outcomes[i] = "ok" =>
              /\ i = Len(send_outcomes)
              /\ send_pc = "returned"
    /\ Len(send_sleeps) <= 2
    /\ \A i \in 1..Len(send_sleeps) :
          /\ send_sleeps[i] = i
          /\ i \in FailedAttempts
    /\ send_pc = "attempt" => Len(send_sleeps) = Len(send_outcomes)
    /\ send_result \in {"none_yet", "True", "False"}
    /\ (send_result = "none_yet") = (send_pc # "returned")
    /\ send_result = "True" =>
          /\ Len(send_outcomes) >= 1
          /\ send_outcomes[Len(send_outcomes)] = "ok"
    /\ send_result = "False" =>
          /\ Cardinality(FailedAttempts) = 3
          /\ send_sleeps = <<1, 2>>

(* C23: bounded delivery retries: one call of send_photo_via_http makes at  *)
(* most 3 attempts, stops at the first attempt that succeeds, waits 1       *)
(* second after a failed first attempt and 2 seconds after a failed second  *)
(* attempt and nothing after the third, and always returns one final        *)
(* result, True on a success and False after three failures; the result,    *)
(* once returned, never changes.                                            *)
C23_BoundedDeliveryRetries ==
    /\ []WithinDeliveryPolicy
    /\ <>(send_pc = "returned")
    /\ [][send_pc = "returned" => UNCHANGED sendVars]_vars

\* a call that failed three times, after waits of 1 and 2 seconds
C23_Witness ==
    /\ send_pc = "returned"
    /\ send_result = "False"
    /\ Len(send_outcomes) = 3
    /\ send_sleeps = <<1, 2>>

\* the (hour, minute) pair the calculator reads
Configuration == <<BASE_TARGET_HOUR_KST, BASE_TARGET_MINUTE_KST>>

\* the pairs that were ever asked for: the one of the environment and those of
\* the valid forms
WholeConfigurations ==
    {<<TARGET_HOUR_KST, TARGET_MINUTE_KST>>}
        \cup {<<form[1].val, form[2].val>> : form \in {f \in FormInputs : ValidForm(f[1], f[2])}}

\* the step stores a trigger, in the loop's variable or in the status dict
StoresTrigger ==
    \/ next_target_time_kst' # next_target_time_kst
    \/ status'.next_scheduled_time_kst # status.next_scheduled_time_kst

(* C24: a reconfiguration racing with a tick never mixes configurations:   *)
(* the pair the calculator reads is at every moment a whole configuration   *)
(* (the one of the environment or the one of a valid request, never the     *)
(* hour of one and the minute of another), a step changes it to the pair    *)
(* of the request or not at all, and every trigger stored by the loop or    *)
(* by set_schedule_time, a reconfiguration during a suspended cycle         *)
(* included, is the calculator's answer for the pair in force at that step  *)
(* and for the instant the step read.                                       *)
C24_NoMixedConfiguration ==
    /\ [](Configuration \in WholeConfigurations)
    /\ [][/\ next_target_time_kst' # next_target_time_kst =>
                /\ next_target_time_kst' \in
                      {calculate_next_target_time(now)',
                       calculate_next_target_time(current_kst)'}
                /\ MinuteOf(next_target_time_kst') = BASE_TARGET_MINUTE_KST'
                /\ HourOf(next_target_time_kst') \in
                      {BASE_TARGET_HOUR_KST', BASE_TARGET_HOUR_KST' - 1}
          /\ status'.next_scheduled_time_kst # status.next_scheduled_time_kst =>
                /\ status'.next_scheduled_time_kst \in
                      {StrftimeFull(calculate_next_target_time(now)'),
                       StrftimeFull(calculate_next_target_time(current_kst)')}
                /\ status'.next_scheduled_time_kst[3] = BASE_TARGET_MINUTE_KST'
                /\ status'.next_scheduled_time_kst[2] \in
                      {BASE_TARGET_HOUR_KST', BASE_TARGET_HOUR_KST' - 1}]_vars

\* a request changed both the hour and the minute while a cycle was suspended
\* inside run_and_send_plot, and the status dict shows a trigger of the new pair
C24_Witness ==
    /\ pc = "cycle"
    /\ event = "set_time_303"
    /\ BASE_TARGET_HOUR_KST # TARGET_HOUR_KST
    /\ BASE_TARGET_MINUTE_KST # TARGET_MINUTE_KST
    /\ status.next_scheduled_time_kst[3] = BASE_TARGET_MINUTE_KST

(* C25: unique trigger date per cycle: once a tick has handled the pending  *)
(* trigger of calendar date D, by invoking the cycle or by skipping an      *)
(* excluded weekday, no trigger stored afterwards by the monitor loop has   *)
(* date D.  A trigger window is the minute that starts at the trigger, so   *)
(* it lies within one date and cycles[D] counts the cycles invoked for the  *)
(* trigger of date D; for a skipped date the trigger stored by the skipping *)
(* tick itself is looked at.                                                *)
C25_UniqueTriggerDate ==
    [][next_target_time_kst' # next_target_time_kst =>
          /\ cycles'[DateOf(next_target_time_kst')] = 0
          /\ event' = "skip" => DateOf(next_target_time_kst') # target_date_kst']_vars

\* the last step called the calculator and the calculator raised: at the loop's
\* start (line 656), in a tick (lines 694 and 702), in the handler (line 787)
CalculatorFailed ==
    \/ pc = "dead"
    \/ raised /\ event \in {"skip", "config_failure", "catch_up",
                            "delivered", "producer_failed", "delivery_failed"}
    \/ event = "set_time_500"

(* C26: the effective trigger hour is always a valid hour: for every base   *)
(* hour in 0..23 and either daylight-saving regime                          *)
(* get_target_hour_for_kst_date returns a value in 0..23, so                *)
(* calculate_next_target_time never fails, whether called at the loop's     *)
(* start, inside a tick, or inside set_schedule_time after the update.      *)
C26_EffectiveHourValid ==
    /\ BASE_TARGET_HOUR_KST \in 0..(HoursPerDay - 1) =>
          /\ get_target_hour_for_kst_date(now) \in 0..(HoursPerDay - 1)
          /\ calculate_next_target_time(now) # ValueError
    /\ ~CalculatorFailed

(* C27: the status surface shows the trigger the loop acts on: in every     *)
(* state after the monitor loop has started, status['next_scheduled_time_   *)
(* kst'] is the text of the loop's own pending next_target_time_kst, for    *)
(* any interleaving of ticks and reconfigurations.                          *)
C27_StatusShowsPendingTrigger ==
    pc \in {"sleep", "cycle"} =>
        status.next_scheduled_time_kst = StrftimeFull(next_target_time_kst)

\* the step is a tick that took the trigger branch of line 679
TakesTriggerBranch == event' \in {"skip", "invoke", "config_failure"}

(* C28: the day guard never blocks an unhandled trigger: in every state     *)
(* the calendar date of the monitor loop's pending trigger differs from     *)
(* last_sent_date, so a tick that falls inside the trigger window finds     *)
(* the not-yet-sent guard open and takes the trigger branch.                *)
C28_GuardNeverBlocks ==
    /\ [](pc \in {"sleep", "cycle"} =>
             StrftimeDate(next_target_time_kst) # status.last_sent_date_kst)
    /\ [][(TickStep /\ InWindow(now', next_target_time_kst)) =>
             TakesTriggerBranch]_vars

(* C29: at most one fetch-and-plot worker runs at a time: in every run of   *)
(* plot_vix_sp500, runs in which an attempt is abandoned by the 50-second   *)
(* timeout included, a new execution of _sync_fetch_and_plot_data starts    *)
(* only after every earlier one has finished.                               *)
C29_AtMostOneWorker == Cardinality(running) <= 1

====
